---- MODULE Spec2Model ----
(***************************************************************************)
(* A model of server.js: the AdvancedCryptoBot analysis pipeline           *)
(* (fetchOHLCV, calculateIndicators, the four strategies, analyzeSentiment,*)
(* analyzeCoin) and the watchlist routes of the express server.            *)
(*                                                                         *)
(* Numbers are integers.  Prices and volumes are small naturals, the RSI   *)
(* is a whole number of points in 0..100.  Strings that the code inspects  *)
(* with String.includes are sequences of one-character strings, so that    *)
(* the substring test is computed and not assumed.                         *)
(***************************************************************************)
EXTENDS Integers, Sequences, FiniteSets, TLC

VARIABLES
    heap,           \* the array objects ever bound to cryptoBot.watchlist
    watchlist,      \* cryptoBot.watchlist: the array it refers to now
    pc,             \* per analysis request: "idle", "running", "responded"
    iterArr,        \* per request: the array its for-of iterator walks
    inflight,       \* per request: positions whose analyzeCoin is pending
    watchlistData,  \* per request: the local result list
    response,       \* per request: the body sent by res.json
    startList,      \* history: the watchlist contents when the request began
    endList,        \* history: the watchlist contents when it was answered
    attempted,      \* history: the symbols handed to analyzeCoin, in order
    outcomes,       \* history: what analyzeCoin gave for each finished attempt
    call,           \* the pending call of a pipeline function, with its inputs
    result          \* what that call returned ("pending" before it ran)

vars == <<heap, watchlist, pc, iterArr, inflight, watchlistData, response,
          startList, endList, attempted, outcomes, call, result>>

serverVars == <<heap, watchlist, pc, iterArr, inflight, watchlistData,
                response, startList, endList, attempted, outcomes>>

-----------------------------------------------------------------------------
(* Bounds of the model *)

MaxArrays == 2      \* array objects allocated for the watchlist
MaxSignals == 4     \* length of the signal lists given to analyzeSentiment
MaxPrice == 3       \* prices range over 0..MaxPrice

(* Constants of the program *)

MIN_CANDLES == 200          \* analyzeCoin: data.length < 200
RECENT == 50                \* analyzeCoin: data.slice(-50)
VOLUME_MIN_CANDLES == 21    \* volumeBreakoutStrategy: data.length < 21
VOLUME_WINDOW == 20         \* volumeBreakoutStrategy: data.slice(-20), / 20
VOLUME_FACTOR == 2          \* volumeBreakoutStrategy: avgVolume * 2
PRICE_CHANGE_PCT == 2       \* volumeBreakoutStrategy: priceChange > 2, < -2
RSI_STRONG_BUY == 25
RSI_BUY == 35
RSI_STRONG_SELL == 75
RSI_SELL == 65
VERY_BULLISH_ABOVE == 5
BULLISH_ABOVE == 2

Symbols == {"BTC/USDT", "ETH/USDT"}
Runs == {1, 2}     \* two concurrent GET /api/watchlist/analysis requests
Arrays == 1..MaxArrays

-----------------------------------------------------------------------------
(* JavaScript values *)

\* A value that may be null carries a tag: Null, or Some(v) for the value v.
Null == [null |-> TRUE]
Some(v) == [null |-> FALSE, value |-> v]
IsNull(v) == v.null

\* a || b for a number a: 0 is falsy
OrElse(a, b) == IF a = 0 THEN b ELSE a

\* xs[xs.length - 1] || d for a series of numbers
LastOr(xs, d) == IF Len(xs) = 0 THEN d ELSE OrElse(xs[Len(xs)], d)

\* xs[xs.length - 1] || d for a series of objects (an object is truthy)
LastObjOr(xs, d) == IF Len(xs) = 0 THEN d ELSE xs[Len(xs)]

\* Array.prototype.slice(-n)
SliceLast(xs, n) == IF Len(xs) <= n THEN xs ELSE SubSeq(xs, Len(xs) - n + 1, Len(xs))

\* Array.prototype.includes
Contains(xs, x) == \E i \in 1..Len(xs) : xs[i] = x

\* String.prototype.includes on strings held as character sequences
Includes(s, sub) ==
    \E i \in 0..(Len(s) - Len(sub)) : SubSeq(s, i + 1, i + Len(sub)) = sub

STRONG_BUY == <<"S","T","R","O","N","G"," ","B","U","Y">>
BUY == <<"B","U","Y">>
STRONG_SELL == <<"S","T","R","O","N","G"," ","S","E","L","L">>
SELL == <<"S","E","L","L">>
BULLISH == <<"B","U","L","L","I","S","H">>
BEARISH == <<"B","E","A","R","I","S","H">>

SignalTypes == {STRONG_BUY, BUY, STRONG_SELL, SELL}

\* Array.prototype.sort((a, b) => a - b)
RECURSIVE InsertAscending(_, _)
InsertAscending(x, xs) ==
    IF xs = <<>> THEN <<x>>
    ELSE IF Head(xs) <= x THEN <<Head(xs)>> \o InsertAscending(x, Tail(xs))
         ELSE <<x>> \o xs

RECURSIVE SortAscending(_)
SortAscending(xs) ==
    IF xs = <<>> THEN <<>> ELSE InsertAscending(Head(xs), SortAscending(Tail(xs)))

\* Array.prototype.sort((a, b) => b - a)
RECURSIVE InsertDescending(_, _)
InsertDescending(x, xs) ==
    IF xs = <<>> THEN <<x>>
    ELSE IF Head(xs) >= x THEN <<Head(xs)>> \o InsertDescending(x, Tail(xs))
         ELSE <<x>> \o xs

RECURSIVE SortDescending(_)
SortDescending(xs) ==
    IF xs = <<>> THEN <<>> ELSE InsertDescending(Head(xs), SortDescending(Tail(xs)))

RECURSIVE Sum(_)
Sum(xs) == IF xs = <<>> THEN 0 ELSE Head(xs) + Sum(Tail(xs))

-----------------------------------------------------------------------------
(* fetchOHLCV: the exchange either throws or yields rows                   *)
(* <<timestamp, open, high, low, close, volume>>, which are mapped to      *)
(* candle objects; a throw is caught and becomes null.                     *)

fetchOHLCV(exchange) ==
    IF exchange.throws THEN Null
    ELSE Some([i \in 1..Len(exchange.ohlcv) |->
            [timestamp |-> exchange.ohlcv[i][1],
             open      |-> exchange.ohlcv[i][2],
             high      |-> exchange.ohlcv[i][3],
             low       |-> exchange.ohlcv[i][4],
             close     |-> exchange.ohlcv[i][5],
             volume    |-> exchange.ohlcv[i][6]]])

(* calculateIndicators: the technicalindicators library either throws or   *)
(* yields one series per indicator; the last value of each is kept, with a *)
(* zero default.                                                           *)

calculateIndicators(data, ti) ==
    IF ti.throws THEN Null
    ELSE Some(
         [rsi    |-> LastOr(ti.rsi, 0),
          macd   |-> LastObjOr(ti.macd, [MACD |-> 0, signal |-> 0, histogram |-> 0]),
          bb     |-> LastObjOr(ti.bb, [upper |-> 0, middle |-> 0, lower |-> 0]),
          sma20  |-> LastOr(ti.sma20, 0),
          sma50  |-> LastOr(ti.sma50, 0),
          sma200 |-> LastOr(ti.sma200, 0),
          ema12  |-> LastOr(ti.ema12, 0),
          ema26  |-> LastOr(ti.ema26, 0),
          stoch  |-> LastObjOr(ti.stoch, [k |-> 0, d |-> 0]),
          atr    |-> LastOr(ti.atr, 0)])

Signal(type, description) == [type |-> type, description |-> description]

(* rsiDivergenceStrategy *)

\* thresholds that take the boundary values 65 and 35 as signals
rsiDivergenceStrategyInclusive(data, indicators) ==
    LET rsi == indicators.rsi
    IN  IF rsi < RSI_STRONG_BUY
          THEN <<Signal(STRONG_BUY, <<"RSI extremely oversold", rsi>>)>>
        ELSE IF rsi <= RSI_BUY
          THEN <<Signal(BUY, <<"RSI oversold", rsi>>)>>
        ELSE IF rsi > RSI_STRONG_SELL
          THEN <<Signal(STRONG_SELL, <<"RSI extremely overbought", rsi>>)>>
        ELSE IF rsi >= RSI_SELL
          THEN <<Signal(SELL, <<"RSI overbought", rsi>>)>>
        ELSE <<>>

\* independent tests in place of the else-if chain
rsiDivergenceStrategyNoElse(data, indicators) ==
    LET rsi == indicators.rsi
    IN  (IF rsi < RSI_STRONG_BUY
           THEN <<Signal(STRONG_BUY, <<"RSI extremely oversold", rsi>>)>> ELSE <<>>)
        \o (IF rsi < RSI_BUY
           THEN <<Signal(BUY, <<"RSI oversold", rsi>>)>> ELSE <<>>)
        \o (IF rsi > RSI_STRONG_SELL
           THEN <<Signal(STRONG_SELL, <<"RSI extremely overbought", rsi>>)>> ELSE <<>>)
        \o (IF rsi > RSI_SELL
           THEN <<Signal(SELL, <<"RSI overbought", rsi>>)>> ELSE <<>>)

rsiDivergenceStrategy(data, indicators) ==
    LET rsi == indicators.rsi
        currentPrice == data[Len(data)].close
    IN  IF rsi < RSI_STRONG_BUY
          THEN <<Signal(STRONG_BUY, <<"RSI extremely oversold", rsi>>)>>
        ELSE IF rsi < RSI_BUY
          THEN <<Signal(BUY, <<"RSI oversold", rsi>>)>>
        ELSE IF rsi > RSI_STRONG_SELL
          THEN <<Signal(STRONG_SELL, <<"RSI extremely overbought", rsi>>)>>
        ELSE IF rsi > RSI_SELL
          THEN <<Signal(SELL, <<"RSI overbought", rsi>>)>>
        ELSE <<>>

(* macdCrossoverStrategy *)

macdCrossoverStrategy(data, indicators) ==
    LET macd == indicators.macd
    IN  IF macd.MACD > macd.signal /\ macd.histogram > 0
          THEN <<Signal(BUY, <<"MACD bullish crossover">>)>>
        ELSE IF macd.MACD < macd.signal /\ macd.histogram < 0
          THEN <<Signal(SELL, <<"MACD bearish crossover">>)>>
        ELSE <<>>

(* bollingerBandsStrategy *)

bollingerBandsStrategy(data, indicators) ==
    LET currentPrice == data[Len(data)].close
        bb == indicators.bb
    IN  IF currentPrice < bb.lower
          THEN <<Signal(BUY, <<"Price broke below lower Bollinger Band">>)>>
        ELSE IF currentPrice > bb.upper
          THEN <<Signal(SELL, <<"Price broke above upper Bollinger Band">>)>>
        ELSE <<>>

(* volumeBreakoutStrategy.  avgVolume is the sum of the last 20 volumes    *)
(* over 20 and priceChange is (current - previous) / previous * 100; with  *)
(* a positive previous close both comparisons are stated on the products,  *)
(* which is the same comparison without the division.                      *)

\* an average over the 20 candles before the current one
VolumeSumBeforeCurrent(data) ==
    LET window == SubSeq(data, Len(data) - VOLUME_WINDOW, Len(data) - 1)
    IN  Sum([i \in 1..Len(window) |-> window[i].volume])

VolumeSum(data) ==
    LET window == SliceLast(data, VOLUME_WINDOW)
    IN  Sum([i \in 1..Len(window) |-> window[i].volume])

volumeBreakoutStrategy(data) ==
    IF Len(data) < VOLUME_MIN_CANDLES THEN <<>>
    ELSE
      LET current == data[Len(data)]
          previous == data[Len(data) - 1]
          volumeSum == VolumeSum(data)
          change == (current.close - previous.close) * 100
      IN  IF current.volume * VOLUME_WINDOW > volumeSum * VOLUME_FACTOR
            THEN IF change > PRICE_CHANGE_PCT * previous.close
                   THEN <<Signal(STRONG_BUY, <<"High volume breakout", change>>)>>
                 ELSE IF change < (0 - PRICE_CHANGE_PCT) * previous.close
                   THEN <<Signal(STRONG_SELL, <<"High volume breakdown", change>>)>>
                 ELSE <<>>
          ELSE <<>>

(* analyzeSentiment *)

\* the BUY and SELL tests placed before the STRONG ones
SignalScoreWeakFirst(signal) ==
    IF Includes(signal.type, BUY) THEN 1
    ELSE IF Includes(signal.type, STRONG_BUY) \/ Includes(signal.type, BULLISH) THEN 3
    ELSE IF Includes(signal.type, SELL) THEN 0 - 1
    ELSE IF Includes(signal.type, STRONG_SELL) \/ Includes(signal.type, BEARISH) THEN 0 - 3
    ELSE 0

SignalScore(signal) ==
    IF Includes(signal.type, STRONG_BUY) \/ Includes(signal.type, BULLISH) THEN 3
    ELSE IF Includes(signal.type, BUY) THEN 1
    ELSE IF Includes(signal.type, STRONG_SELL) \/ Includes(signal.type, BEARISH) THEN 0 - 3
    ELSE IF Includes(signal.type, SELL) THEN 0 - 1
    ELSE 0

RECURSIVE ScoreOf(_)
ScoreOf(signals) ==
    IF signals = <<>> THEN 0
    ELSE SignalScore(Head(signals)) + ScoreOf(Tail(signals))

\* bands closed at 5 and 2
ClassifyInclusive(score) ==
    IF score >= VERY_BULLISH_ABOVE THEN "VERY BULLISH"
    ELSE IF score >= BULLISH_ABOVE THEN "BULLISH"
    ELSE IF score <= 0 - VERY_BULLISH_ABOVE THEN "VERY BEARISH"
    ELSE IF score <= 0 - BULLISH_ABOVE THEN "BEARISH"
    ELSE "NEUTRAL"

Classify(score) ==
    IF score > VERY_BULLISH_ABOVE THEN "VERY BULLISH"
    ELSE IF score > BULLISH_ABOVE THEN "BULLISH"
    ELSE IF score < 0 - VERY_BULLISH_ABOVE THEN "VERY BEARISH"
    ELSE IF score < 0 - BULLISH_ABOVE THEN "BEARISH"
    ELSE "NEUTRAL"

analyzeSentiment(signals) ==
    LET score == ScoreOf(signals)
    IN  [sentiment |-> Classify(score), score |-> score]

(* analyzeCoin: support and resistance over the last 50 candles *)

ResistanceLevels(data, currentPrice) ==
    LET recent50 == SliceLast(data, RECENT)
        above == SelectSeq(recent50, LAMBDA d : d.high > currentPrice)
    IN  SortAscending([i \in 1..Len(above) |-> above[i].high])

SupportLevels(data, currentPrice) ==
    LET recent50 == SliceLast(data, RECENT)
        below == SelectSeq(recent50, LAMBDA d : d.low < currentPrice)
    IN  SortDescending([i \in 1..Len(below) |-> below[i].low])

\* levels[0] || null
FirstLevel(levels) ==
    IF levels = <<>> THEN Null
    ELSE IF levels[1] = 0 THEN Null
    ELSE Some(levels[1])

(* analyzeCoin.  A call ends in Returned(v) or in Thrown(message).         *)
(* AnalyzeCoinTry is the try block; analyzeCoin adds the catch clause,     *)
(* which returns null for every error.  The timestamp field of the record  *)
(* (the time of the call) is left out.                                     *)

Thrown(message) == [thrown |-> TRUE, error |-> message]
Returned(v) == [thrown |-> FALSE, value |-> v]

\* a guard that let 199 candles through
InsufficientDataOffByOne(fetched) ==
    IsNull(fetched) \/ Len(fetched.value) < MIN_CANDLES - 1

\* !data || data.length < 200
InsufficientData(fetched) ==
    IsNull(fetched) \/ Len(fetched.value) < MIN_CANDLES

AnalyzeCoinTry(symbol, exchange, ti) ==
    LET fetched == fetchOHLCV(exchange)
    IN  IF InsufficientData(fetched) THEN Thrown("Insufficient data for analysis")
        ELSE
          LET data == fetched.value
              indicators == calculateIndicators(data, ti)
          IN  IF IsNull(indicators) THEN Thrown("Failed to calculate indicators")
              ELSE
                LET latest == data[Len(data)]
                    rsiSignals == rsiDivergenceStrategy(data, indicators.value)
                    macdSignals == macdCrossoverStrategy(data, indicators.value)
                    bbSignals == bollingerBandsStrategy(data, indicators.value)
                    volumeSignals == volumeBreakoutStrategy(data)
                    allSignals == rsiSignals \o macdSignals \o bbSignals \o volumeSignals
                    sentimentData == analyzeSentiment(allSignals)
                    currentPrice == latest.close
                IN  Returned(
                      [symbol       |-> symbol,
                       currentPrice |-> latest.close,
                       volume24h    |-> latest.volume,
                       indicators   |-> indicators.value,
                       signals      |-> allSignals,
                       sentiment    |-> sentimentData,
                       support      |-> FirstLevel(SupportLevels(data, currentPrice)),
                       resistance   |-> FirstLevel(ResistanceLevels(data, currentPrice))])

analyzeCoin(symbol, exchange, ti) ==
    LET body == AnalyzeCoinTry(symbol, exchange, ti)
    IN  IF body.thrown THEN Returned(Null) ELSE Returned(Some(body.value))

-----------------------------------------------------------------------------
(* What the collaborators can answer *)

Shape(open, high, low, close, volume) ==
    [open |-> open, high |-> high, low |-> low, close |-> close, volume |-> volume]

Flat(price, volume) == Shape(price, price, price, price, volume)

\* n rows, oldest first: filler rows, one special row at position pos, then
\* the previous and the latest row
Rows(n, filler, special, pos, previous, latest) ==
    [i \in 1..n |->
        LET s == IF i = n THEN latest
                 ELSE IF i = n - 1 THEN previous
                 ELSE IF i = pos THEN special
                 ELSE filler
        IN  <<i, s.open, s.high, s.low, s.close, s.volume>>]

ExchangeThrows == [throws |-> TRUE, ohlcv |-> <<>>]
ExchangeReturns(rows) == [throws |-> FALSE, ohlcv |-> rows]

TIThrows ==
    [throws |-> TRUE, rsi |-> <<>>, macd |-> <<>>, bb |-> <<>>, sma20 |-> <<>>,
     sma50 |-> <<>>, sma200 |-> <<>>, ema12 |-> <<>>, ema26 |-> <<>>,
     stoch |-> <<>>, atr |-> <<>>]

TIReturns(rsi, macd, bb) ==
    [throws |-> FALSE, rsi |-> rsi, macd |-> macd, bb |-> bb, sma20 |-> <<50>>,
     sma50 |-> <<50>>, sma200 |-> <<50>>, ema12 |-> <<50>>, ema26 |-> <<50>>,
     stoch |-> <<[k |-> 50, d |-> 50]>>, atr |-> <<1>>]

Macd(m, s, h) == [MACD |-> m, signal |-> s, histogram |-> h]
Bands(upper, middle, lower) == [upper |-> upper, middle |-> middle, lower |-> lower]

-----------------------------------------------------------------------------
(* The express server: the watchlist routes *)

Pending == [done |-> FALSE]
Done(v) == [done |-> TRUE, value |-> v]
NoCall == [fn |-> "none"]

ServerInit ==
    /\ heap = [a \in Arrays |-> <<>>]
    /\ watchlist = 1
    /\ pc = [r \in Runs |-> "idle"]
    /\ iterArr = [r \in Runs |-> 1]
    /\ inflight = [r \in Runs |-> {}]
    /\ watchlistData = [r \in Runs |-> <<>>]
    /\ response = [r \in Runs |-> <<>>]
    /\ startList = [r \in Runs |-> <<>>]
    /\ endList = [r \in Runs |-> <<>>]
    /\ attempted = [r \in Runs |-> <<>>]
    /\ outcomes = [r \in Runs |-> <<>>]

\* POST /api/watchlist/add: push onto the array in place, unless present
WatchlistAdd(symbol) ==
    /\ heap' = IF Contains(heap[watchlist], symbol) THEN heap
               ELSE [heap EXCEPT ![watchlist] = Append(@, symbol)]
    /\ UNCHANGED <<watchlist, pc, iterArr, inflight, watchlistData, response,
                   startList, endList, attempted, outcomes, call, result>>

\* what a delete that spliced the array in place would do
WatchlistDeleteInPlace(symbol) ==
    /\ watchlist < MaxArrays
    /\ heap' = [heap EXCEPT ![watchlist] = SelectSeq(@, LAMBDA s : s # symbol)]
    /\ UNCHANGED <<watchlist, pc, iterArr, inflight, watchlistData, response,
                   startList, endList, attempted, outcomes, call, result>>

\* DELETE /api/watchlist/:symbol: filter builds a new array, which replaces
\* the old one
WatchlistDelete(symbol) ==
    /\ watchlist < MaxArrays
    /\ heap' = [heap EXCEPT ![watchlist + 1] =
                    SelectSeq(heap[watchlist], LAMBDA s : s # symbol)]
    /\ watchlist' = watchlist + 1
    /\ UNCHANGED <<pc, iterArr, inflight, watchlistData, response,
                   startList, endList, attempted, outcomes, call, result>>

(* GET /api/watchlist/analysis.  The for-of loop takes the iterator of the *)
(* array that cryptoBot.watchlist refers to when the request arrives; the  *)
(* iterator reads the array's length at every step.  The handler is        *)
(* suspended only in `await cryptoBot.analyzeCoin(symbol)`, that is in the *)
(* exchange's fetch: what runs between two suspensions is one step.        *)

Job(arr, pos) == [pos |-> pos, symbol |-> arr[pos]]

\* a loop that started every remaining analysis at once
LaunchAll(arr, pos) == {Job(arr, p) : p \in pos..Len(arr)}

\* the loop reaches position pos: the analyses it starts
Launch(arr, pos) == IF pos <= Len(arr) THEN {Job(arr, pos)} ELSE {}

\* the symbols of the jobs, by position
SymbolsOf(jobs) ==
    LET first == CHOOSE p \in {j.pos : j \in jobs} : \A j \in jobs : p <= j.pos
    IN  IF jobs = {} THEN <<>>
        ELSE [i \in 1..Cardinality(jobs) |->
                (CHOOSE j \in jobs : j.pos = first + i - 1).symbol]

\* a loop body that pushed whatever analyzeCoin returned
CollectAll(data, outcome) ==
    IF outcome.thrown THEN data
    ELSE IF IsNull(outcome.value) THEN Append(data, Null)
    ELSE Append(data, outcome.value.value)

\* the loop body after the await: push the analysis unless it is null; an
\* exception is caught and logged
Collect(data, outcome) ==
    IF outcome.thrown THEN data
    ELSE IF IsNull(outcome.value) THEN data
    ELSE Append(data, outcome.value.value)

ServerRows == Rows(MIN_CANDLES, Flat(50, 9), Flat(50, 9), 1, Flat(50, 9), Flat(50, 9))

ServerExchanges ==
    {ExchangeThrows,
     ExchangeReturns(SubSeq(ServerRows, 1, MIN_CANDLES - 1)),
     ExchangeReturns(ServerRows)}

ServerTIs == {TIThrows, TIReturns(<<50>>, <<Macd(0, 0, 0)>>, <<Bands(60, 50, 40)>>)}

\* the answers to one analysis: the fetch fails, or gives too few candles,
\* or gives enough and the indicator library then fails or works
ServerAnswers ==
    {<<e, t>> \in ServerExchanges \X ServerTIs :
        (e.throws \/ Len(e.ohlcv) < MIN_CANDLES) => ~t.throws}

\* analyzeCoin on each answer the collaborators can give in a request
ServerAnalyses ==
    [symbol \in Symbols |->
        [exchange \in ServerExchanges |->
            [ti \in ServerTIs |-> analyzeCoin(symbol, exchange, ti)]]]

StartAnalysis(r) ==
    /\ pc[r] = "idle"
    /\ LET arr == heap[watchlist]
           started == Launch(arr, 1)
       IN  /\ iterArr' = [iterArr EXCEPT ![r] = watchlist]
           /\ startList' = [startList EXCEPT ![r] = arr]
           /\ watchlistData' = [watchlistData EXCEPT ![r] = <<>>]
           /\ inflight' = [inflight EXCEPT ![r] = started]
           /\ attempted' = [attempted EXCEPT ![r] = SymbolsOf(started)]
           /\ pc' = [pc EXCEPT ![r] = IF started = {} THEN "responded" ELSE "running"]
           /\ response' = [response EXCEPT ![r] = <<>>]
           /\ endList' = [endList EXCEPT ![r] = IF started = {} THEN arr ELSE @]
    /\ UNCHANGED <<heap, watchlist, outcomes, call, result>>

CompleteAnalysis(r, job, exchange, ti) ==
    /\ pc[r] = "running"
    /\ job \in inflight[r]
    /\ LET outcome == ServerAnalyses[job.symbol][exchange][ti]
           data == Collect(watchlistData[r], outcome)
           started == Launch(heap[iterArr[r]], job.pos + 1)
           left == (inflight[r] \ {job}) \cup started
       IN  /\ outcomes' = [outcomes EXCEPT ![r] = Append(@, outcome)]
           /\ watchlistData' = [watchlistData EXCEPT ![r] = data]
           /\ inflight' = [inflight EXCEPT ![r] = left]
           /\ attempted' = [attempted EXCEPT ![r] = @ \o SymbolsOf(started)]
           /\ pc' = [pc EXCEPT ![r] = IF left = {} THEN "responded" ELSE "running"]
           /\ response' = [response EXCEPT ![r] = IF left = {} THEN data ELSE @]
           /\ endList' = [endList EXCEPT ![r] = IF left = {} THEN heap[watchlist] ELSE @]
    /\ UNCHANGED <<heap, watchlist, iterArr, startList, call, result>>

Init ==
    /\ ServerInit
    /\ call = NoCall
    /\ result = Pending

Next ==
    \/ \E symbol \in Symbols : WatchlistAdd(symbol)
    \/ \E symbol \in Symbols : WatchlistDelete(symbol)
    \/ \E r \in Runs : StartAnalysis(r)
    \/ \E r \in Runs : \E job \in inflight[r] :
         \E answer \in ServerAnswers :
           CompleteAnalysis(r, job, answer[1], answer[2])

Spec == Init /\ [][Next]_vars

-----------------------------------------------------------------------------
(* Properties of the watchlist analysis route *)

Elements(xs) == {xs[i] : i \in 1..Len(xs)}
IsPrefix(xs, ys) == Len(xs) <= Len(ys) /\ SubSeq(ys, 1, Len(xs)) = xs
Occurrences(xs, x) == Cardinality({i \in 1..Len(xs) : xs[i] = x})
Succeeded(outcome) == ~outcome.thrown /\ ~outcome.value.null

RECURSIVE Successes(_)
Successes(outs) ==
    IF outs = <<>> THEN <<>>
    ELSE (IF Succeeded(Head(outs)) THEN <<Head(outs).value.value>> ELSE <<>>)
         \o Successes(Tail(outs))

\* C2: a request is answered only when every symbol of the array it walks
\* has been analysed, whatever the earlier analyses gave, and the answer is
\* the successful analyses in the order of the walk, the failed ones left out.
C2_FailureIsSkipped ==
    [][\A r \in Runs :
         (pc[r] # "responded" /\ pc'[r] = "responded") =>
            /\ attempted'[r] = heap'[iterArr'[r]]
            /\ Len(outcomes'[r]) = Len(attempted'[r])
            /\ response'[r] = Successes(outcomes'[r])
            /\ \A i \in 1..Len(outcomes'[r]) :
                 Succeeded(outcomes'[r][i]) =>
                    outcomes'[r][i].value.value.symbol = attempted'[r][i]]_vars

\* a request answered with the second symbol's analysis after the first failed
C2_Witness ==
    \E r \in Runs :
        /\ pc[r] = "responded"
        /\ Len(outcomes[r]) = 2
        /\ ~Succeeded(outcomes[r][1])
        /\ Succeeded(outcomes[r][2])
        /\ Len(response[r]) = 1
        /\ response[r][1].symbol = attempted[r][2]

\* C3: a request never has two analyses pending, and it starts the analysis
\* of a symbol only when all the earlier ones have finished.
C3_Sequential ==
    \A r \in Runs :
        /\ Cardinality(inflight[r]) <= 1
        /\ Len(attempted[r]) = Len(outcomes[r]) + Cardinality(inflight[r])
        /\ \A job \in inflight[r] : job.pos = Len(outcomes[r]) + 1

\* both requests have finished a first analysis and wait for their second
C3_Witness ==
    \A r \in Runs :
        /\ pc[r] = "running"
        /\ Len(outcomes[r]) = 1
        /\ \E job \in inflight[r] : job.pos = 2

\* C9: the symbols in the watchlist when the request began are attempted
\* once each and in list order, whatever is added or deleted meanwhile.
C9_SnapshotAttempted ==
    \A r \in Runs :
        /\ pc[r] = "running" =>
              \A i \in 1..Len(attempted[r]) :
                 i <= Len(startList[r]) => attempted[r][i] = startList[r][i]
        /\ pc[r] = "responded" =>
              /\ IsPrefix(startList[r], attempted[r])
              /\ \A s \in Elements(startList[r]) : Occurrences(attempted[r], s) = 1

\* a request answered with the analysis of a symbol that was deleted while
\* the request was waiting, so that the watchlist no longer held it
C9_Witness ==
    \E r \in Runs :
        /\ pc[r] = "responded"
        /\ \E i \in 1..Len(response[r]) :
              /\ response[r][i].symbol \in Elements(startList[r])
              /\ response[r][i].symbol \notin Elements(endList[r])

-----------------------------------------------------------------------------
(* The pipeline functions, each called once on inputs drawn from a set *)

\* analyzeSentiment on every list of at most MaxSignals signals
SignalLists ==
    UNION {[1..n -> {Signal(t, <<"signal">>) : t \in SignalTypes}] : n \in 0..MaxSignals}

SentimentInit ==
    /\ ServerInit
    /\ call \in {[fn |-> "analyzeSentiment", signals |-> xs] : xs \in SignalLists}
    /\ result = Pending

CallSentiment ==
    /\ call.fn = "analyzeSentiment"
    /\ ~result.done
    /\ result' = Done(analyzeSentiment(call.signals))
    /\ UNCHANGED <<serverVars, call>>

SpecSentiment == SentimentInit /\ [][CallSentiment]_vars

\* rsiDivergenceStrategy on every whole RSI value, as calculateIndicators
\* hands it over
RsiValues == 0..100

RsiInit ==
    /\ ServerInit
    /\ call \in {[fn |-> "rsiDivergenceStrategy",
                  data |-> fetchOHLCV(ExchangeReturns(
                              Rows(1, Flat(50, 9), Flat(50, 9), 1, Flat(50, 9), Flat(50, 9)))).value,
                  rsi |-> r] : r \in RsiValues}
    /\ result = Pending

CallRsi ==
    /\ call.fn = "rsiDivergenceStrategy"
    /\ ~result.done
    /\ LET ti == TIReturns(<<call.rsi>>, <<Macd(0, 0, 0)>>, <<Bands(60, 50, 40)>>)
           indicators == calculateIndicators(call.data, ti).value
       IN  result' = Done(rsiDivergenceStrategy(call.data, indicators))
    /\ UNCHANGED <<serverVars, call>>

SpecRsi == RsiInit /\ [][CallRsi]_vars

\* volumeBreakoutStrategy on 19 to 22 candles.  A close of 50 followed by
\* 51 is a change of exactly +2%, by 49 of exactly -2%; 19 filler volumes
\* of 9 and a current volume of 19 make the current volume exactly twice
\* the average of the last 20.
VolumeLengths == (VOLUME_MIN_CANDLES - 2)..(VOLUME_MIN_CANDLES + 1)
VolumeValues == {9, 19, 20}
CloseValues == {48, 49, 50, 51, 52}

VolumeInit ==
    /\ ServerInit
    /\ call \in {[fn |-> "volumeBreakoutStrategy",
                  data |-> fetchOHLCV(ExchangeReturns(
                              Rows(n, Flat(50, fv), Flat(50, sv), n - VOLUME_WINDOW + off,
                                   Flat(pc0, fv), Flat(c, v)))).value] :
                     n \in VolumeLengths, fv \in VolumeValues, sv \in VolumeValues,
                     off \in {0, 1},
                     pc0 \in CloseValues, c \in CloseValues, v \in VolumeValues}
    /\ result = Pending

CallVolume ==
    /\ call.fn = "volumeBreakoutStrategy"
    /\ ~result.done
    /\ result' = Done(volumeBreakoutStrategy(call.data))
    /\ UNCHANGED <<serverVars, call>>

SpecVolume == VolumeInit /\ [][CallVolume]_vars

\* analyzeCoin
CallAnalyzeCoin ==
    /\ call.fn = "analyzeCoin"
    /\ ~result.done
    /\ result' = Done(analyzeCoin(call.symbol, call.exchange, call.ti))
    /\ UNCHANGED <<serverVars, call>>

\* analyzeCoin on every kind of answer of the exchange and of the indicator
\* library: the fetch fails or gives 0, 199, 200 or 201 candles; the library
\* fails or gives an RSI on either side of each threshold, a MACD triple and
\* bands of each kind, or empty series
RsiSamples == {24, 25, 34, 35, 50, 65, 66, 75, 76}
MacdSamples == {<<>>, <<Macd(1, 0, 1)>>, <<Macd(0, 1, 0 - 1)>>, <<Macd(1, 0, 0 - 1)>>}
BandSamples == {<<>>, <<Bands(60, 50, 40)>>, <<Bands(70, 65, 60)>>, <<Bands(40, 35, 30)>>}
CandleCounts == {0, MIN_CANDLES - 1, MIN_CANDLES, MIN_CANDLES + 1}

AnalyzeExchanges ==
    {ExchangeThrows} \cup
    {ExchangeReturns(Rows(n, Flat(50, 9), Flat(50, 9), 1, Flat(50, 9), Flat(c, v))) :
        n \in CandleCounts, c \in CloseValues, v \in VolumeValues}

AnalyzeTIs ==
    {TIThrows} \cup
    {TIReturns(rsi, macd, bb) :
        rsi \in {<<>>} \cup {<<r>> : r \in RsiSamples},
        macd \in MacdSamples, bb \in BandSamples}

AnalyzeInit ==
    /\ ServerInit
    /\ call \in {[fn |-> "analyzeCoin", symbol |-> "BTC/USDT", exchange |-> e, ti |-> t] :
                    e \in AnalyzeExchanges, t \in AnalyzeTIs}
    /\ result = Pending

SpecAnalyze == AnalyzeInit /\ [][CallAnalyzeCoin]_vars

\* analyzeCoin on 200 or 201 candles with prices in 0..MaxPrice: flat filler
\* candles, one candle of any shape just outside or just inside the last 50,
\* and a latest candle of any shape
PriceShapes ==
    {Shape(c, h, l, c, 9) : <<l, h, c>> \in
        {t \in (0..MaxPrice) \X (0..MaxPrice) \X (1..MaxPrice) : t[1] <= t[3] /\ t[3] <= t[2]}}

LevelExchanges ==
    {ExchangeReturns(Rows(n, Flat(p, 9), special, pos, Flat(p, 9), latest)) :
        n \in {MIN_CANDLES, MIN_CANDLES + 1}, p \in 1..MaxPrice,
        special \in PriceShapes, latest \in PriceShapes,
        pos \in {MIN_CANDLES - RECENT, MIN_CANDLES - RECENT + 1, MIN_CANDLES - RECENT + 2}}

LevelsInit ==
    /\ ServerInit
    /\ call \in {[fn |-> "analyzeCoin", symbol |-> "BTC/USDT", exchange |-> e,
                  ti |-> TIReturns(<<50>>, <<Macd(0, 0, 0)>>, <<Bands(60, 50, 40)>>)] :
                    e \in LevelExchanges}
    /\ result = Pending

SpecLevels == LevelsInit /\ [][CallAnalyzeCoin]_vars

-----------------------------------------------------------------------------
(* Properties of the pipeline functions *)

CountType(signals, type) ==
    Cardinality({i \in 1..Len(signals) : signals[i].type = type})

\* C4: the score is 3 * (number of STRONG BUY) + (number of BUY)
\* - 3 * (number of STRONG SELL) - (number of SELL); every signal counts
\* once, and the empty list scores 0.
C4_ScoreCountsEachSignalOnce ==
    result.done =>
        /\ result.value.score =
              3 * CountType(call.signals, STRONG_BUY) + CountType(call.signals, BUY)
              - 3 * CountType(call.signals, STRONG_SELL) - CountType(call.signals, SELL)
        /\ call.signals = <<>> => result.value.score = 0

\* the list STRONG BUY, BUY has been scored 4
C4_Witness ==
    /\ result.done
    /\ Len(call.signals) = 2
    /\ call.signals[1].type = STRONG_BUY
    /\ call.signals[2].type = BUY
    /\ result.value.score = 4

\* C5: the sentiment is VERY BULLISH above 5, BULLISH in 3..5, VERY BEARISH
\* below -5, BEARISH in -5..-3 and NEUTRAL in -2..2.
C5_StrictBands ==
    result.done =>
        LET score == result.value.score
            sentiment == result.value.sentiment
        IN  /\ score > 5 => sentiment = "VERY BULLISH"
            /\ (2 < score /\ score <= 5) => sentiment = "BULLISH"
            /\ score < 0 - 5 => sentiment = "VERY BEARISH"
            /\ (0 - 5 <= score /\ score < 0 - 2) => sentiment = "BEARISH"
            /\ (0 - 2 <= score /\ score <= 2) => sentiment = "NEUTRAL"

\* a list that scores exactly 5 has been classified BULLISH
C5_Witness ==
    /\ result.done
    /\ result.value.score = 5
    /\ result.value.sentiment = "BULLISH"

\* C7: the RSI strategy gives at most one signal: STRONG BUY below 25, BUY
\* in 25..34, STRONG SELL above 75, SELL in 66..75, nothing in 35..65.
C7_RsiBands ==
    result.done =>
        LET rsi == call.rsi
            signals == result.value
            types == [i \in 1..Len(signals) |-> signals[i].type]
        IN  /\ Len(signals) <= 1
            /\ rsi < 25 => types = <<STRONG_BUY>>
            /\ (25 <= rsi /\ rsi < 35) => types = <<BUY>>
            /\ rsi > 75 => types = <<STRONG_SELL>>
            /\ (65 < rsi /\ rsi <= 75) => types = <<SELL>>
            /\ (35 <= rsi /\ rsi <= 65) => types = <<>>

\* an RSI of exactly 65 has given no signal
C7_Witness ==
    /\ result.done
    /\ call.fn = "rsiDivergenceStrategy"
    /\ call.rsi = 65
    /\ result.value = <<>>

\* C8: no signal for fewer than 21 candles; otherwise STRONG BUY or STRONG
\* SELL only when the current volume exceeds twice the average of the last
\* 20 volumes, the current one included, and the close has moved by more
\* than 2% up or down; no signal otherwise.
C8_VolumeBreakout ==
    result.done =>
        LET data == call.data
            n == Len(data)
            types == [i \in 1..Len(result.value) |-> result.value[i].type]
        IN  IF n < 21 THEN types = <<>>
            ELSE
              LET total == Sum([i \in 1..20 |-> data[n - 20 + i].volume])
                  spike == 20 * data[n].volume > 2 * total
                  up == 100 * (data[n].close - data[n - 1].close) > 2 * data[n - 1].close
                  down == 100 * (data[n].close - data[n - 1].close) < (0 - 2) * data[n - 1].close
              IN  /\ (spike /\ up) => types = <<STRONG_BUY>>
                  /\ (spike /\ down) => types = <<STRONG_SELL>>
                  /\ (~spike \/ (~up /\ ~down)) => types = <<>>

\* 21 candles, a volume spike and a change of exactly +2%: no signal
C8_Witness ==
    /\ result.done
    /\ call.fn = "volumeBreakoutStrategy"
    /\ Len(call.data) = 21
    /\ call.data[21].volume = 20
    /\ call.data[20].volume = 9
    /\ call.data[20].close = 50
    /\ call.data[21].close = 51
    /\ result.value = <<>>

AnalysisFields ==
    {"symbol", "currentPrice", "volume24h", "indicators", "signals", "sentiment",
     "support", "resistance"}

\* C1: analyzeCoin never throws; it returns null when the fetch failed, when
\* fewer than 200 candles came back or when calculateIndicators failed, and
\* a record with every field otherwise.
C1_NullOnFailure ==
    result.done =>
        LET rows == call.exchange.ohlcv
            failure == call.exchange.throws \/ Len(rows) < 200 \/ call.ti.throws
        IN  /\ ~result.value.thrown
            /\ failure <=> IsNull(result.value.value)
            /\ ~failure =>
                  /\ DOMAIN result.value.value.value = AnalysisFields
                  /\ result.value.value.value.symbol = call.symbol
                  /\ result.value.value.value.currentPrice = rows[Len(rows)][5]
                  /\ result.value.value.value.volume24h = rows[Len(rows)][6]

\* 199 candles and working indicators have given null
C1_Witness ==
    /\ result.done
    /\ ~call.exchange.throws
    /\ Len(call.exchange.ohlcv) = 199
    /\ ~call.ti.throws
    /\ ~result.value.thrown
    /\ IsNull(result.value.value)

Min(S) == CHOOSE x \in S : \A y \in S : x <= y
Max(S) == CHOOSE x \in S : \A y \in S : x >= y

\* C6: resistance is the smallest high above the latest close and support
\* the largest low below it among the last 50 candles, and either is null
\* exactly when no candle of the last 50 qualifies.
C6_NearestLevels ==
    result.done =>
        LET rows == call.exchange.ohlcv
            n == Len(rows)
            price == rows[n][5]
            highs == {rows[i][3] : i \in {j \in (n - 49)..n : rows[j][3] > price}}
            lows == {rows[i][4] : i \in {j \in (n - 49)..n : rows[j][4] < price}}
            analysis == result.value.value.value
        IN  /\ analysis.resistance = IF highs = {} THEN Null ELSE Some(Min(highs))
            /\ analysis.support = IF lows = {} THEN Null ELSE Some(Max(lows))

HasSignal(signals, type, description) ==
    \E i \in 1..Len(signals) :
        signals[i].type = type /\ signals[i].description[1] = description

RsiEmits(signals, type) ==
    \/ HasSignal(signals, type, "RSI extremely oversold")
    \/ HasSignal(signals, type, "RSI oversold")
    \/ HasSignal(signals, type, "RSI extremely overbought")
    \/ HasSignal(signals, type, "RSI overbought")

VolumeEmits(signals, type) ==
    \/ HasSignal(signals, type, "High volume breakout")
    \/ HasSignal(signals, type, "High volume breakdown")

FromStrategy(signals, descriptions) ==
    Cardinality({i \in 1..Len(signals) : signals[i].description[1] \in descriptions})

OneSignalPerStrategy(signals) ==
    /\ FromStrategy(signals, {"RSI extremely oversold", "RSI oversold",
                              "RSI extremely overbought", "RSI overbought"}) <= 1
    /\ FromStrategy(signals, {"MACD bullish crossover", "MACD bearish crossover"}) <= 1
    /\ FromStrategy(signals, {"Price broke below lower Bollinger Band",
                              "Price broke above upper Bollinger Band"}) <= 1
    /\ FromStrategy(signals, {"High volume breakout", "High volume breakdown"}) <= 1
    /\ Len(signals) <= 4

====
